---- MODULE Spec2Model ----
(***************************************************************************)
(* Think Studio (dashboard.py): the Explore tab's data loading, filter    *)
(* pipeline and search, the maturity model and the lens model with its    *)
(* gap table, as a state machine.  One step of the machine is one user    *)
(* interaction followed by the script run Streamlit performs for it.      *)
(*                                                                         *)
(* Text is a sequence of one-character strings.  A data frame is a        *)
(* sequence of rows; every row carries its index label `idx` (pandas      *)
(* RangeIndex of the loaded frame), which filtering preserves.            *)
(***************************************************************************)
EXTENDS Integers, Sequences, FiniteSets, TLC

\* ------------------------------------------------------------------ bounds
\* Largest number of rows of strategies.csv when the filters and the search
\* are explored on their own.
MaxRows == 3
\* Largest number of rows of strategies.csv when the whole session (uploads,
\* loads, refreshes) is explored.
MaxSessionRows == 1
\* Largest number of lens sliders away from their default when the lens
\* model is explored.
MaxDisplaced == 2

\* --------------------------------------------------------------- constants
\* pandas' missing value of the numeric year column.
NaN == -1
\* Python's None (st.session_state key absent, emb_df not computed, no file,
\* no slider); a value that is present is the one-element tuple Some(x),
\* except the year range, which is the slider's own pair.
None == <<>>
Some(x) == <<x>>
\* top_k passed by tab_explore.
TOP_K == 100

REQUIRED ==
  <<"id", "title", "organisation", "org_type", "country", "year",
    "scope", "link", "summary", "source", "date_added">>

Range(s) == {s[i] : i \in 1..Len(s)}

\* ------------------------------------------------------------------- text
Lower(c) == IF c = "A" THEN "a" ELSE IF c = "B" THEN "b" ELSE c

\* a + " " + b on strings.
JoinSp(a, b) == a \o <<" ">> \o b

\* re.compile(query): a "(" without its ")" is not a regular expression.
re_valid(pat) == \A j \in 1..Len(pat) : pat[j] # "("

\* re.search(pat, text, re.IGNORECASE) for patterns of literals and ".".
re_search(pat, text) ==
  \E i \in 1..(Len(text) - Len(pat) + 1) :
     \A j \in 1..Len(pat) :
        \/ pat[j] = "."
        \/ Lower(pat[j]) = Lower(text[i + j - 1])

\* ------------------------------------------------------------ CSV content
\* A CSV file: its header and its data lines.  A year cell is a number, a
\* blank or some other text; the text cells are strings, blank = "".
YNum(n) == [kind |-> "num", val |-> n]
YBlank == [kind |-> "blank", val |-> 0]
YText == [kind |-> "text", val |-> 0]

Line(t, o, s, sc, ot, c, y) ==
  [title |-> t, organisation |-> o, summary |-> s, scope |-> sc,
   org_type |-> ot, country |-> c, year |-> y]

Pool ==
  { Line(<<"a">>, <<>>, <<>>, <<"a">>, <<"a">>, <<"b">>, YNum(2020)),
    Line(<<"A", "b">>, <<>>, <<>>, <<>>, <<>>, <<>>, YText),
    Line(<<>>, <<"B">>, <<>>, <<"a">>, <<"b">>, <<>>, YNum(2021)) }

RECURSIVE SeqsUpTo(_, _)
SeqsUpTo(S, n) ==
  IF n = 0 THEN {<<>>}
  ELSE LET shorter == SeqsUpTo(S, n - 1)
       IN  shorter \cup {Append(s, x) : s \in {t \in shorter : Len(t) = n - 1}, x \in S}

Csv(cols, lines) == [columns |-> cols, lines |-> lines]

\* The contents strategies.csv can have, up to n rows.
DefaultCsvs(n) == {Csv(Range(REQUIRED), ls) : ls \in SeqsUpTo(Pool, n)}

\* A second CSV file of the working directory.
OtherCsv ==
  Csv(Range(REQUIRED),
      << Line(<<"b">>, <<"a">>, <<>>, <<"a">>, <<"a">>, <<"b">>, YNum(2021)),
         Line(<<"a">>, <<>>, <<>>, <<"b">>, <<>>, <<>>, YBlank) >>)

\* A CSV file without its organisation column.
BrokenCsv ==
  Csv(Range(REQUIRED) \ {"organisation"},
      << Line(<<"a">>, <<>>, <<>>, <<>>, <<>>, <<>>, YNum(2020)) >>)

\* What the user can drop on the uploader.
UploadCsv ==
  Csv(Range(REQUIRED) \cup {"archetypes"},
      << Line(<<"B">>, <<>>, <<"b">>, <<"a">>, <<"a">>, <<>>, YNum(2020)),
         Line(<<>>, <<"a">>, <<>>, <<>>, <<"a">>, <<"b">>, YNum(2020)),
         Line(<<"a">>, <<"a">>, <<>>, <<"b">>, <<>>, <<"b">>, YText) >>)

Uploads == {UploadCsv, BrokenCsv}

\* ---------------------------------------------------------------- loading
\* pd.to_numeric with a blank read as zero.
to_numeric_zero(cell) ==
  IF cell.kind = "num" THEN cell.val ELSE IF cell.kind = "blank" THEN 0 ELSE NaN

\* pd.to_numeric(cell, errors="coerce")
to_numeric(cell) == IF cell.kind = "num" THEN cell.val ELSE NaN

\* pd.read_csv on a text cell: an empty field is a missing value.
read_csv(cell) ==
  IF cell = <<>> THEN [na |-> TRUE, val |-> <<>>] ELSE [na |-> FALSE, val |-> cell]

\* .fillna("") on a text cell.
fillna(cell) == IF cell.na THEN <<>> ELSE cell.val

\* One data line as a row of the frame: its index label i - 1 of the
\* RangeIndex, its text cells after fillna(""), its year after to_numeric.
read_row(line, i) ==
  [idx |-> i - 1,
   title |-> fillna(read_csv(line.title)),
   organisation |-> fillna(read_csv(line.organisation)),
   summary |-> fillna(read_csv(line.summary)),
   scope |-> fillna(read_csv(line.scope)),
   org_type |-> fillna(read_csv(line.org_type)),
   country |-> fillna(read_csv(line.country)),
   year |-> to_numeric(line.year)]

\* The first n data lines as rows.
RECURSIVE read_rows(_, _)
read_rows(lines, n) ==
  IF n = 0 THEN <<>>
  ELSE Append(read_rows(lines, n - 1), read_row(lines[n], n))

\* The loader reporting the first missing column only.
load_data_first_missing(csv) ==
  LET missing == SelectSeq(REQUIRED, LAMBDA c : c \notin csv.columns)
  IN  IF missing # <<>>
      THEN [ok |-> FALSE, rows |-> <<>>, missing |-> <<missing[1]>>]
      ELSE [ok |-> TRUE,
            rows |-> read_rows(csv.lines, Len(csv.lines)),
            missing |-> <<>>]

\* pd.read_csv(...).fillna(""), the REQUIRED check and the year coercion.
\* ok = FALSE is the ValueError raised for the missing columns, `missing`
\* the list its message shows.
load_data(csv) ==
  LET missing == SelectSeq(REQUIRED, LAMBDA c : c \notin csv.columns)
  IN  IF missing # <<>>
      THEN [ok |-> FALSE, rows |-> <<>>, missing |-> missing]
      ELSE [ok |-> TRUE,
            rows |-> read_rows(csv.lines, Len(csv.lines)),
            missing |-> <<>>]

load_data_from_path(csv) == load_data(csv)

load_data_from_bytes(content) == load_data(content)

\* --------------------------------------------------------- filter pipeline
\* Series.between(lo, hi): inclusive, and False on NaN.
between(y, lo, hi) == y # NaN /\ lo <= y /\ y <= hi

\* Series.isin(values)
isin(v, values) == v \in values

SetMin(S) == CHOOSE x \in S : \A y \in S : x <= y
SetMax(S) == CHOOSE x \in S : \A y \in S : y <= x

\* years = sorted(df["year"].dropna().unique())
years_of(rows) == {rows[i].year : i \in 1..Len(rows)} \ {NaN}

\* The slider's parameters (min, max) and default value; None without years.
yr_default(rows) ==
  IF years_of(rows) # {}
  THEN <<SetMin(years_of(rows)), SetMax(years_of(rows))>>
  ELSE None

\* The values st.slider can return for the frame.
yr_values(rows) ==
  IF years_of(rows) # {}
  THEN {<<lo, hi>> : lo \in SetMin(years_of(rows))..SetMax(years_of(rows)),
                      hi \in SetMin(years_of(rows))..SetMax(years_of(rows))}
       \cap {p \in (Int \X Int) : p[1] <= p[2]}
  ELSE {None}

\* The multiselect options: the non-blank values of a column.
org_types(rows) == {rows[i].org_type : i \in 1..Len(rows)} \ {<<>>}
countries(rows) == {rows[i].country : i \in 1..Len(rows)} \ {<<>>}
scopes(rows) == {rows[i].scope : i \in 1..Len(rows)} \ {<<>>}

\* if yr: fdf = fdf[fdf["year"].between(yr[0], yr[1])]
filter_year(rows, yr_) ==
  IF yr_ # None
  THEN SelectSeq(rows, LAMBDA r : between(r.year, yr_[1], yr_[2]))
  ELSE rows

\* if org_type_sel: fdf = fdf[fdf["org_type"].isin(org_type_sel)]
filter_org_type(rows, sel) ==
  IF sel # {} THEN SelectSeq(rows, LAMBDA r : isin(r.org_type, sel)) ELSE rows

\* if country_sel: fdf = fdf[fdf["country"].isin(country_sel)]
filter_country(rows, sel) ==
  IF sel # {} THEN SelectSeq(rows, LAMBDA r : isin(r.country, sel)) ELSE rows

\* filter_scope without the test for an empty selection.
filter_scope_unguarded(rows, sel) == SelectSeq(rows, LAMBDA r : isin(r.scope, sel))

\* if scope_sel: fdf = fdf[fdf["scope"].isin(scope_sel)]
filter_scope(rows, sel) ==
  IF sel # {} THEN SelectSeq(rows, LAMBDA r : isin(r.scope, sel)) ELSE rows

\* The k-th filter of the pipeline, in the order of the source.
filter_step(k, rows, yr_, ot, co, sc) ==
  CASE k = 1 -> filter_year(rows, yr_)
    [] k = 2 -> filter_org_type(rows, ot)
    [] k = 3 -> filter_country(rows, co)
    [] k = 4 -> filter_scope(rows, sc)

\* filter_pipeline with the country filter taken from df instead of fdf.
filter_pipeline_from_df(rows, yr_, ot, co, sc) ==
  filter_step(4, filter_step(3, rows, yr_, ot, co, sc), yr_, ot, co, sc)

\* fdf = df.copy() and the four filters, lines 874-882.
filter_pipeline(rows, yr_, ot, co, sc) ==
  filter_step(4, filter_step(3, filter_step(2, filter_step(1, rows, yr_, ot, co, sc),
                                            yr_, ot, co, sc), yr_, ot, co, sc),
              yr_, ot, co, sc)

\* ------------------------------------------------------------------ search
\* A frame as a search returns it: the rows, and the similarity column when
\* the ranking added one.  ok = FALSE is an exception raised by the call.
Frame(rows) ==
  [ok |-> TRUE, rows |-> rows, has_similarity |-> FALSE, similarity |-> <<>>]

Ranked(rows, sims) ==
  [ok |-> TRUE, rows |-> rows, has_similarity |-> TRUE, similarity |-> sims]

RaisedFrame ==
  [ok |-> FALSE, rows |-> <<>>, has_similarity |-> FALSE, similarity |-> <<>>]

\* title + " " + organisation + " " + summary + " " + scope, lines 293-299.
search_text(r) == JoinSp(JoinSp(JoinSp(r.title, r.organisation), r.summary), r.scope)

Reverse(s) == [k \in 1..Len(s) |-> s[Len(s) + 1 - k]]

\* simple_search returning its matches last row first.
simple_search_reversed(df_in, query) ==
  IF query = <<>> THEN Frame(df_in)
  ELSE IF ~re_valid(query) THEN RaisedFrame
  ELSE Frame(Reverse(SelectSeq(df_in, LAMBDA r : re_search(query, search_text(r)))))

\* text.str.contains(query, case=False, na=False): query is a regular
\* expression; compiling an invalid one raises re.error.
simple_search(df_in, query) ==
  IF query = <<>> THEN Frame(df_in)
  ELSE IF ~re_valid(query) THEN RaisedFrame
  ELSE Frame(SelectSeq(df_in, LAMBDA r : re_search(query, search_text(r))))

\* title, organisation, summary, scope and country joined by spaces,
\* lines 320-326.
embed_text(r) ==
  JoinSp(JoinSp(JoinSp(JoinSp(r.title, r.organisation), r.summary), r.scope), r.country)

Count(text, c) == Cardinality({i \in 1..Len(text) : Lower(text[i]) = c})

\* model.encode(text): the embedding oracle, here the letter counts of the
\* text.
encode(text) == <<Count(text, "a"), Count(text, "b")>>

\* sub_emb @ q_emb for one row.
dot(u, v) == u[1] * v[1] + u[2] * v[2]

\* get_embedding_model(), given HAS_EMBED.
get_embedding_model(has_embed) ==
  IF ~has_embed THEN None ELSE Some("all-MiniLM-L6-v2")

\* compute_strategy_embeddings(df, APP_VERSION): one embedding per index
\* label of the frame.
compute_strategy_embeddings(df_in, has_embed) ==
  IF ~has_embed THEN None
  ELSE IF get_embedding_model(has_embed) = None THEN None
  ELSE Some([i \in {df_in[k].idx : k \in 1..Len(df_in)} |->
               encode(embed_text(CHOOSE r \in Range(df_in) : r.idx = i))])

Min(a, b) == IF a <= b THEN a ELSE b

Perms(n) == {p \in [1..n -> 1..n] : \A i, j \in 1..n : p[i] = p[j] => i = j}

\* np.argsort(-sims): the default sort is not stable, so every order that
\* sorts the similarities is a possible result.
argsort_desc(sims) ==
  {p \in Perms(Len(sims)) :
     \A i, j \in 1..Len(sims) : i < j => sims[p[i]] >= sims[p[j]]}

\* semantic_search without the test for an empty query.
semantic_search_any_query(fdf_in, emb, query, top_k, has_embed) ==
  IF emb = None \/ fdf_in = <<>> THEN {Frame(fdf_in)}
  ELSE IF get_embedding_model(has_embed) = None THEN {Frame(fdf_in)}
  ELSE IF \E k \in 1..Len(fdf_in) : fdf_in[k].idx \notin DOMAIN emb[1]
       THEN {RaisedFrame}
  ELSE LET q_emb == encode(query)
           sims == [k \in 1..Len(fdf_in) |-> dot(emb[1][fdf_in[k].idx], q_emb)]
           n == Min(top_k, Len(fdf_in))
       IN  {Ranked([k \in 1..n |-> fdf_in[order[k]]],
                   [k \in 1..n |-> sims[order[k]]]) : order \in argsort_desc(sims)}

\* semantic_search(fdf, emb_df, query, top_k): the set of frames the call can
\* return.  emb_df.loc[fdf.index] raises KeyError on a label emb_df lacks.
semantic_search(fdf_in, emb, query, top_k, has_embed) ==
  IF query = <<>> \/ emb = None \/ fdf_in = <<>> THEN {Frame(fdf_in)}
  ELSE IF get_embedding_model(has_embed) = None THEN {Frame(fdf_in)}
  ELSE IF \E k \in 1..Len(fdf_in) : fdf_in[k].idx \notin DOMAIN emb[1]
       THEN {RaisedFrame}
  ELSE LET q_emb == encode(query)
           sims == [k \in 1..Len(fdf_in) |-> dot(emb[1][fdf_in[k].idx], q_emb)]
           n == Min(top_k, Len(fdf_in))
       IN  {Ranked([k \in 1..n |-> fdf_in[order[k]]],
                   [k \in 1..n |-> sims[order[k]]]) : order \in argsort_desc(sims)}

\* The search dispatch of tab_explore, lines 884-890.
search_step(fdf_in, emb, query, mode, has_embed) ==
  IF query # <<>>
  THEN IF mode = "AI semantic" /\ emb # None
       THEN semantic_search(fdf_in, emb, query, TOP_K, has_embed)
       ELSE {simple_search(fdf_in, query)}
  ELSE {Frame(fdf_in)}

\* --------------------------------------------------------- maturity model
MATURITY_THEMES == <<"Uses", "Data", "Leadership", "Culture", "Tools", "Skills">>

MATURITY_SCALE ==
  [i \in 1..5 |->
     CASE i = 1 -> "Beginning"
       [] i = 2 -> "Emerging"
       [] i = 3 -> "Learning"
       [] i = 4 -> "Developing"
       [] i = 5 -> "Mastering"]

\* Floor of num/den for den > 0.
FloorDiv(num, den) ==
  IF num >= 0 THEN num \div den ELSE -((-num + den - 1) \div den)

\* Python's round(num/den): to the nearest integer, a tie to the even one.
\* The averages of the model are exact in binary floating point at the ties
\* (sixths of an integer: k + 1/2 is representable).
round(num, den) ==
  LET fl == FloorDiv(num, den)
      twice == 2 * (num - fl * den)
  IN  IF twice < den THEN fl
      ELSE IF twice > den THEN fl + 1
      ELSE IF fl % 2 = 0 THEN fl ELSE fl + 1

\* maturity_label with the index wrapped into 1..5 instead of clamped.
maturity_label_wrapping(num, den) ==
  MATURITY_SCALE[((round(num, den) - 1) % 5) + 1]

\* maturity_label(avg) for avg = num/den.
maturity_label(num, den) ==
  LET idx == round(num, den)
      clamped == IF idx < 1 THEN 1 ELSE IF idx > 5 THEN 5 ELSE idx
  IN  MATURITY_SCALE[clamped]

RECURSIVE SumSeq(_, _)
SumSeq(f, s) == IF s = <<>> THEN 0 ELSE f[Head(s)] + SumSeq(f, Tail(s))

\* ensure_sessions(): the default of st.session_state["_maturity_scores"].
default_maturity_scores == [t \in Range(MATURITY_THEMES) |-> 3]

\* --------------------------------------------------------------- lens model
\* The ten lenses: name, left label (0), right label (100).
AXES ==
  << <<"Abstraction Level", "Conceptual", "Logical / Physical">>,
     <<"Adaptability", "Living", "Fixed">>,
     <<"Ambition", "Essential", "Transformational">>,
     <<"Coverage", "Horizontal", "Use-case-based">>,
     <<"Governance Structure", "Ecosystem / Federated", "Centralised">>,
     <<"Orientation", "Technology-focused", "Value-focused">>,
     <<"Motivation", "Compliance-driven", "Innovation-driven">>,
     <<"Access Philosophy", "Data-democratised", "Controlled access">>,
     <<"Delivery Mode", "Incremental", "Big Bang">>,
     <<"Decision Model", "Data-informed", "Data-driven">> >>

DIMENSIONS == [i \in 1..Len(AXES) |-> AXES[i][1]]

\* ensure_sessions(): the default of "_current_scores" and "_target_scores".
default_lens_scores == [d \in Range(DIMENSIONS) |-> 50]

\* The rule table of conflict_for_target, lines 457-479: the first rule of
\* the band that matches the lens and the target, None without one.
conflict_rules(lens_name, target_score, low, highish) ==
  IF low /\ lens_name = "Delivery Mode" /\ target_score >= 70
  THEN Some("Big bang delivery at Beginning or Emerging maturity is high risk. Consider phased delivery.")
  ELSE IF low /\ lens_name = "Governance Structure" /\ target_score <= 30
  THEN Some("Highly federated models at low maturity can fragment standards. Strengthen central controls first.")
  ELSE IF low /\ lens_name = "Access Philosophy" /\ target_score <= 30
  THEN Some("Wide democratisation needs strong basics. Start with controlled, role based access.")
  ELSE IF low /\ lens_name = "Decision Model" /\ target_score >= 70
  THEN Some("Highly data driven decisions need robust data quality, monitoring and skills.")
  ELSE IF low /\ lens_name = "Motivation" /\ target_score >= 70
  THEN Some("Innovation first without guardrails can raise risk. Keep compliance in the loop.")
  ELSE IF highish /\ lens_name = "Delivery Mode" /\ target_score <= 30
  THEN Some("At Developing or Mastering, being too incremental may under deliver benefits.")
  ELSE IF highish /\ lens_name = "Governance Structure" /\ target_score >= 80
  THEN Some("Highly centralised models may slow teams at higher maturity. Consider selective federation.")
  ELSE IF highish /\ lens_name = "Access Philosophy" /\ target_score >= 80
  THEN Some("Excessive control may limit value realisation. Revisit openness where safe.")
  ELSE None

\* conflict_for_target with every right-hand threshold ten points lower.
conflict_for_target_early(lens_name, target_score, num, den) ==
  LET level == maturity_label(num, den)
  IN  conflict_rules(lens_name,
                     IF target_score >= 60 THEN target_score + 10 ELSE target_score,
                     level \in {"Beginning", "Emerging"},
                     level \in {"Developing", "Mastering"})

\* conflict_for_target with Learning counted as higher maturity.
conflict_for_target_learning_high(lens_name, target_score, num, den) ==
  LET level == maturity_label(num, den)
  IN  conflict_rules(lens_name, target_score,
                     level \in {"Beginning", "Emerging"},
                     level \in {"Learning", "Developing", "Mastering"})

\* conflict_for_target(lens_name, target_score, maturity_avg) for
\* maturity_avg = num/den: None, or Some(the warning).
conflict_for_target(lens_name, target_score, num, den) ==
  LET level == maturity_label(num, den)
      low == level \in {"Beginning", "Emerging"}
      highish == level \in {"Developing", "Mastering"}
  IN  conflict_rules(lens_name, target_score, low, highish)

abs(x) == IF x < 0 THEN -x ELSE x

\* The row of one lens with the signs of the difference swapped.
gap_row_swapped(a, current, target, num, den) ==
  LET d == a[1]
      diff == current[d] - target[d]
      conflict == conflict_for_target(d, target[d], num, den)
  IN  [Lens |-> d, Current |-> current[d], Target |-> target[d],
       Change_needed |-> diff, Magnitude |-> abs(diff),
       Direction |-> IF diff > 0 THEN <<"toward", a[3]>>
                     ELSE IF diff < 0 THEN <<"toward", a[2]>>
                     ELSE <<"no change">>,
       Conflict |-> conflict # None,
       Conflict_note |-> IF conflict # None THEN conflict[1] ELSE ""]

\* The row tab_shift appends for the lens a = (d, left_lbl, right_lbl).  The
\* direction "toward **label**" is the pair <<"toward", label>>.
gap_row(a, current, target, num, den) ==
  LET d == a[1]
      diff == target[d] - current[d]
      mag == abs(diff)
      direction == IF diff > 0 THEN <<"toward", a[3]>>
                   ELSE IF diff < 0 THEN <<"toward", a[2]>>
                   ELSE <<"no change">>
      conflict == conflict_for_target(d, target[d], num, den)
  IN  [Lens |-> d, Current |-> current[d], Target |-> target[d],
       Change_needed |-> diff, Magnitude |-> mag, Direction |-> direction,
       Conflict |-> conflict # None,
       Conflict_note |-> IF conflict # None THEN conflict[1] ELSE ""]

\* Row r sorts strictly before row e: on the conflict flag (True first) and
\* then the magnitude (largest first) when by_conflict, on the magnitude
\* alone otherwise.
sorts_before(r, e, by_conflict) ==
  IF by_conflict
  THEN \/ r.Conflict /\ ~e.Conflict
       \/ r.Conflict = e.Conflict /\ r.Magnitude > e.Magnitude
  ELSE r.Magnitude > e.Magnitude

\* The rows s, sorted, with the row r placed behind those it does not sort
\* strictly before.
placed(s, r, by_conflict) ==
  LET k == Cardinality({i \in 1..Len(s) : ~sorts_before(r, s[i], by_conflict)})
  IN  SubSeq(s, 1, k) \o <<r>> \o SubSeq(s, k + 1, Len(s))

\* A stable sort: every row is placed behind the rows appended before it
\* that it does not sort strictly before.  (The rows and the sorted prefix
\* are each bound once, as t and s.)
RECURSIVE stable_sort(_, _)
stable_sort(rows, by_conflict) ==
  CHOOSE out \in
    UNION {IF t = <<>> THEN {<<>>}
           ELSE {placed(s, t[Len(t)], by_conflict) :
                   s \in {stable_sort(SubSeq(t, 1, Len(t) - 1), by_conflict)}} :
             t \in {rows}} : TRUE

\* The rows in the order of a sort by magnitude alone.
sort_values_by_magnitude(rows) == stable_sort(rows, FALSE)

\* DataFrame.sort_values(["Conflict", "Magnitude"], ascending=[False, False]):
\* a sort on several columns is a lexsort, which is stable, so rows equal on
\* both keys keep the order they were appended in.
sort_values(rows) == stable_sort(rows, TRUE)

\* rows of tab_shift after the first n lenses, lines 1243-1264.
RECURSIVE gap_rows(_, _, _, _, _)
gap_rows(n, current, target, num, den) ==
  IF n = 0 THEN <<>>
  ELSE Append(gap_rows(n - 1, current, target, num, den),
              gap_row(AXES[n], current, target, num, den))

\* gap_df of tab_shift, lines 1243-1267.
gap_table(current, target, scores) ==
  LET num == SumSeq(scores, MATURITY_THEMES)
      den == Len(MATURITY_THEMES)
  IN  sort_values(gap_rows(Len(AXES), current, target, num, den))

\* ---------------------------------------------------- shift and action log
TOP_N == 3

\* DataFrame.head(n)
head(rows, n) == SubSeq(rows, 1, Min(n, Len(rows)))

\* left_lbl and right_lbl of tab_shift: the labels of the lens d in AXES.
left_lbl(d) == AXES[CHOOSE i \in 1..Len(AXES) : AXES[i][1] = d][2]
right_lbl(d) == AXES[CHOOSE i \in 1..Len(AXES) : AXES[i][1] = d][3]

\* One bullet of "Priority shifts", lines 1303-1316.
bullet(row) ==
  LET d == row.Lens
      diff == row.Change_needed
  IN  [Lens |-> d,
       line |-> IF diff > 0 THEN <<"shift toward", right_lbl(d), diff>>
                ELSE IF diff < 0 THEN <<"shift toward", left_lbl(d), diff>>
                ELSE <<"no change">>,
       note |-> row.Conflict_note]

\* One row of actions_rows, lines 1321-1343.
action_row(i, row) ==
  LET d == row.Lens
      diff == row.Change_needed
  IN  [Priority |-> i, Lens |-> d,
       Direction |-> IF diff > 0 THEN <<"toward", right_lbl(d)>>
                     ELSE IF diff < 0 THEN <<"toward", left_lbl(d)>>
                     ELSE <<"no change">>,
       Owner |-> "", Timeline |-> "", Metric |-> "", Status |-> ""]

\* "Priority shifts" of tab_shift, lines 1297-1349, on gap_df: what is shown
\* and the frame stored in "_actions_df" (None when nothing is stored).
priority_shifts(gap) ==
  CHOOSE shown \in
    {IF Len(top) > 0
     THEN [shown |-> "priority shifts",
           bullets |-> [i \in 1..Len(top) |-> bullet(top[i])],
           actions_rows |-> Some([i \in 1..Len(top) |-> action_row(i, top[i])])]
     ELSE [shown |-> "no shifts", bullets |-> <<>>, actions_rows |-> None] :
       top \in {head(gap, TOP_N)}} : TRUE

\* tab_shift was not reached by the run.
NotReached == [shown |-> "none", bullets |-> <<>>, actions_rows |-> None]

\* pd.DataFrame(columns=...) and pd.DataFrame(actions_rows)
DataFrame(columns, rows) == [columns |-> columns, rows |-> rows]

ACTION_COLUMNS ==
  {"Priority", "Lens", "Direction", "Owner", "Timeline", "Metric", "Status"}

\* project_and_impact_cols of tab_actions, lines 1376-1385.
project_and_impact_cols ==
  {"Project description", "Project type", "Data maturity theme", "Impact type",
   "Est annual financial impact", "Users affected (volume)",
   "Confidence (1 to 5)", "Impact notes"}

\* tab_actions, lines 1358-1519, on the "_actions_df" it finds: the notice
\* of an empty log, or the editor and the frame it saves: the project and
\* impact columns added empty where missing, Lens and Direction dropped, no
\* edit by the user.
tab_actions(actions) ==
  IF actions.rows = <<>>
  THEN [shown |-> "No priority shifts have been generated yet", saved |-> actions]
  ELSE LET cols == (actions.columns \cup project_and_impact_cols)
                     \ {"Lens", "Direction"}
       IN  [shown |-> "Project and action log",
            saved |-> DataFrame(cols,
                        [i \in 1..Len(actions.rows) |->
                           [c \in cols |-> IF c \in actions.columns
                                           THEN actions.rows[i][c] ELSE ""]])]

\* ---------------------------------------------------------- session state
SESSION_KEYS ==
  {"_maturity_scores", "_current_scores", "_target_scores", "_actions_df",
   "_biz_priority"}

\* What ensure_sessions() stores under a key that is missing.
session_default(k) ==
  CASE k = "_maturity_scores" -> default_maturity_scores
    [] k = "_current_scores" -> default_lens_scores
    [] k = "_target_scores" -> default_lens_scores
    [] k = "_actions_df" -> DataFrame(ACTION_COLUMNS, <<>>)
    [] k = "_biz_priority" -> [outcomes |-> {}, questions |-> <<>>, capabilities |-> {}]

\* ensure_sessions(), lines 266-282, on the session state ss, a value or
\* None (the key is missing) for each of its keys.
ensure_sessions(ss) ==
  [k \in SESSION_KEYS |-> IF ss[k] = None THEN session_default(k) ELSE ss[k]]

\* st.session_state after "for k in list(st.session_state.keys()): del".
cleared_session_state == [k \in SESSION_KEYS |-> None]

\* ------------------------------------------------------------------ state
VARIABLES
  HAS_EMBED,        \* sentence_transformers could be imported
  default_csv,      \* the content of strategies.csv
  uploaded_bytes,   \* st.session_state["uploaded_bytes"], None when absent
  uploaded,         \* the file held by the uploader widget, None when empty
  df,               \* the frame of the last completed run
  emb_df,           \* the embeddings of the last completed run
  yr,               \* the year slider
  org_type_sel,     \* the three multiselects
  country_sel,
  scope_sel,
  q,                \* the search box
  search_mode,      \* the search mode radio
  filtered,         \* fdf after the four filters (line 882)
  fdf,              \* fdf after the search (line 890), as displayed
  maturity_scores,  \* st.session_state["_maturity_scores"]
  current_level_name, \* the maturity badge of tab_diagnose
  messages,         \* what the data loader of tab_explore reported in the last run
  current_scores,   \* st.session_state["_current_scores"]
  target_scores,    \* st.session_state["_target_scores"]
  call,             \* a function of the script called on its own
  biz_priority,     \* st.session_state["_biz_priority"], None when absent
  biz_widgets,      \* the three widgets of "Business priorities": the default
                    \* each was built with and the value it holds
  shift_view,       \* "Priority shifts" of tab_shift in the last run
  actions_view,     \* what tab_actions showed in the last run
  actions_df,       \* st.session_state["_actions_df"], None when absent
  pc                \* "idle": the last run completed; "rerun": st.rerun() is pending

vars ==
  <<HAS_EMBED, default_csv, uploaded_bytes, uploaded, df, emb_df, yr,
    org_type_sel, country_sel, scope_sel, q, search_mode, filtered, fdf,
    maturity_scores, current_level_name, messages, current_scores,
    target_scores, call, biz_priority, biz_widgets, shift_view, actions_view,
    actions_df, pc>>

\* gap_df as tab_shift computes it from the session state: a local of the
\* script, computed anew by every run that reaches tab_shift.
gap_df == gap_table(current_scores, target_scores, maturity_scores)

\* The CSV files of the working directory, csv_files_local.
csv_files == {"broken.csv", "other.csv", "strategies.csv"}

read_file(name) ==
  CASE name = "strategies.csv" -> default_csv
    [] name = "other.csv" -> OtherCsv
    [] name = "broken.csv" -> BrokenCsv

\* The search texts the user types.
Queries == {<<>>, <<"A">>, <<"b">>, <<".">>, <<"(">>}

SearchModes == {"Keyword", "AI semantic"}

\* The widget values as the browser holds them.
Widgets ==
  [yr |-> yr, org_type_sel |-> org_type_sel, country_sel |-> country_sel,
   scope_sel |-> scope_sel, q |-> q, search_mode |-> search_mode,
   biz |-> biz_widgets]

\* st.session_state under the keys of ensure_sessions.
session_state ==
  [k \in SESSION_KEYS |->
     CASE k = "_maturity_scores" -> maturity_scores
       [] k = "_current_scores" -> current_scores
       [] k = "_target_scores" -> target_scores
       [] k = "_actions_df" -> actions_df
       [] k = "_biz_priority" -> biz_priority]

BIZ_FIELDS == {"outcomes", "questions", "capabilities"}

\* A widget without a key, st.multiselect(..., default=d) or
\* st.text_area(..., value=d): it is the widget drawn before, and holds the
\* value the browser sent for it, only while it is built with the parameters
\* it was drawn with; built with another default it is a new widget showing
\* that default.
keyless_widget(held, d) == IF held.default = d THEN held.value ELSE d

\* m_avg and current_level_name of tab_diagnose, lines 1018-1020.
level_of(scores) ==
  maturity_label(SumSeq(scores, MATURITY_THEMES), Len(MATURITY_THEMES))

\* st.success(text) and st.error(text: Missing columns: missing).
Message(kind, text, missing) == [kind |-> kind, text |-> text, missing |-> missing]

\* ------------------------------------------------------------- script run
\* One execution of the script.  click is the button pressed ("none",
\* "load", "reload", "hard"), sel the selectbox value, upl the uploader's
\* file, w the widget values the browser sends, scores the maturity sliders
\* and cur, tgt the lens sliders.  A widget keeps the value sent only while
\* it is built with the parameters it was drawn with; otherwise it shows its
\* default.
ScriptRun(click, sel, upl, w, scores, cur, tgt) ==
  LET \* line 611
      ss == ensure_sessions(session_state)
      \* lines 185-191
      df0 == IF uploaded_bytes # None
             THEN load_data_from_bytes(uploaded_bytes[1]).rows
             ELSE load_data_from_path(default_csv).rows
      \* line 361
      emb0 == compute_strategy_embeddings(df0, HAS_EMBED)
      \* lines 801-813
      df_new == load_data_from_path(read_file(sel))
      df1 == IF click = "load" /\ df_new.ok THEN df_new.rows ELSE df0
      ub1 == IF click = "load" THEN None ELSE uploaded_bytes
      \* lines 818-825
      button_rerun == click \in {"reload", "hard"}
      ub2 == IF click = "hard" THEN None ELSE ub1
      \* lines 827-836
      up_ok == ~button_rerun /\ upl # None /\ load_data_from_bytes(upl[1]).ok
      ub3 == IF up_ok THEN upl ELSE ub2
      \* lines 809-813 and 832-836
      load_msgs ==
        IF click # "load" THEN {}
        ELSE IF df_new.ok THEN {Message("success", "Loaded", <<>>)}
        ELSE {Message("error", "Error loading file", df_new.missing)}
      upload_msgs ==
        IF button_rerun \/ upl = None THEN {}
        ELSE IF up_ok THEN {Message("success", "Loaded uploaded CSV", <<>>)}
        ELSE {Message("error", "Upload error", load_data_from_bytes(upl[1]).missing)}
  IN  /\ uploaded_bytes' = ub3
      /\ uploaded' = upl
      /\ messages' = load_msgs \cup upload_msgs
      /\ UNCHANGED <<HAS_EMBED, default_csv, call>>
      /\ IF button_rerun \/ up_ok
         THEN /\ pc' = "rerun"
              \* lines 823-824 and, in the run that follows, ensure_sessions
              /\ current_scores' =
                   IF click = "hard"
                   THEN ensure_sessions(cleared_session_state)["_current_scores"]
                   ELSE current_scores
              /\ target_scores' =
                   IF click = "hard"
                   THEN ensure_sessions(cleared_session_state)["_target_scores"]
                   ELSE target_scores
              /\ maturity_scores' =
                   IF click = "hard"
                   THEN ensure_sessions(cleared_session_state)["_maturity_scores"]
                   ELSE maturity_scores
              /\ current_level_name' =
                   IF click = "hard" THEN level_of(maturity_scores')
                   ELSE current_level_name
              \* the keys of ensure_sessions are absent after line 824;
              \* the three profiles are shown as the next run's line 611
              \* sets them
              /\ biz_priority' =
                   IF click = "hard" THEN None ELSE ss["_biz_priority"]
              /\ actions_df' =
                   IF click = "hard" THEN None ELSE ss["_actions_df"]
              /\ biz_widgets' = w.biz
              /\ shift_view' = NotReached
              /\ actions_view' = "none"
              /\ UNCHANGED <<df, emb_df, yr, org_type_sel, country_sel, scope_sel,
                             q, search_mode, filtered, fdf>>
         ELSE /\ pc' = "idle"
              /\ df' = df1
              /\ emb_df' = emb0
              \* lines 840-858
              /\ yr' = IF yr_default(df') = yr_default(df)
                       THEN w.yr ELSE yr_default(df')
              /\ org_type_sel' = IF org_types(df') = org_types(df)
                                 THEN w.org_type_sel ELSE org_types(df')
              /\ country_sel' = IF countries(df') = countries(df)
                                THEN w.country_sel ELSE countries(df')
              /\ scope_sel' = IF scopes(df') = scopes(df)
                              THEN w.scope_sel ELSE scopes(df')
              /\ q' = w.q
              /\ search_mode' = w.search_mode
              \* lines 874-882
              /\ filtered' = filter_pipeline(df', yr', org_type_sel', country_sel',
                                             scope_sel')
              \* lines 884-890
              /\ fdf' \in search_step(filtered', emb_df', q', search_mode', HAS_EMBED)
              \* tab_diagnose and tab_shift run when tab_explore raised nothing
              /\ IF fdf'.ok
                 THEN \* lines 957-978
                      /\ biz_priority' =
                           [f \in BIZ_FIELDS |->
                              keyless_widget(w.biz[f], ss["_biz_priority"][f])]
                      /\ biz_widgets' =
                           [f \in BIZ_FIELDS |->
                              [default |-> ss["_biz_priority"][f],
                               value |-> biz_priority'[f]]]
                      /\ maturity_scores' = scores
                      /\ current_level_name' = level_of(scores)
                      /\ current_scores' = cur
                      /\ target_scores' = tgt
                      \* tab_shift and tab_actions, lines 1201-1519: both are
                      \* functions of the session values, so a run that finds
                      \* the values the run before it left shows and stores
                      \* what that run did
                      /\ IF /\ shift_view # NotReached
                            /\ actions_df # None
                            /\ scores = maturity_scores
                            /\ cur = current_scores
                            /\ tgt = target_scores
                         THEN UNCHANGED <<shift_view, actions_view, actions_df>>
                         ELSE /\ shift_view' =
                                   priority_shifts(gap_table(cur, tgt, scores))
                              /\ actions_df' =
                                   tab_actions(
                                     IF shift_view'.actions_rows # None
                                     THEN DataFrame(ACTION_COLUMNS,
                                                    shift_view'.actions_rows[1])
                                     ELSE ss["_actions_df"]).saved
                              /\ actions_view' =
                                   IF actions_df'.rows = <<>>
                                   THEN "No priority shifts have been generated yet"
                                   ELSE "Project and action log"
                 ELSE /\ biz_priority' = ss["_biz_priority"]
                      /\ actions_df' = ss["_actions_df"]
                      /\ biz_widgets' = w.biz
                      /\ shift_view' = NotReached
                      /\ actions_view' = "none"
                      /\ UNCHANGED <<maturity_scores, current_level_name,
                                     current_scores, target_scores>>

\* ------------------------------------------------------------------- init
\* A session at rest with no upload, every Explore widget and every lens at
\* its default, the maturity assessment one of profiles and the function
\* called on its own, if any, one of calls.
InitSession(csvs, profiles, calls) ==
  /\ HAS_EMBED \in BOOLEAN
  /\ default_csv \in csvs
  /\ uploaded_bytes = None
  /\ uploaded = None
  /\ df = load_data_from_path(default_csv).rows
  /\ emb_df = compute_strategy_embeddings(df, HAS_EMBED)
  /\ yr = yr_default(df)
  /\ org_type_sel = org_types(df)
  /\ country_sel = countries(df)
  /\ scope_sel = scopes(df)
  /\ q = <<>>
  /\ search_mode = IF emb_df # None THEN "AI semantic" ELSE "Keyword"
  /\ filtered = filter_pipeline(df, yr, org_type_sel, country_sel, scope_sel)
  /\ fdf = Frame(filtered)
  /\ maturity_scores \in profiles
  /\ current_level_name = level_of(maturity_scores)
  /\ messages = {}
  /\ current_scores = default_lens_scores
  /\ target_scores = default_lens_scores
  /\ call \in calls
  /\ biz_priority = session_default("_biz_priority")
  /\ biz_widgets =
       [f \in BIZ_FIELDS |-> [default |-> biz_priority[f], value |-> biz_priority[f]]]
  /\ shift_view =
       priority_shifts(gap_table(current_scores, target_scores, maturity_scores))
  /\ actions_df =
       tab_actions(IF shift_view.actions_rows # None
                   THEN DataFrame(ACTION_COLUMNS, shift_view.actions_rows[1])
                   ELSE session_default("_actions_df")).saved
  /\ actions_view =
       IF actions_df.rows = <<>>
       THEN "No priority shifts have been generated yet"
       ELSE "Project and action log"
  /\ pc = "idle"

\* The first run of a new session: ensure_sessions sets every theme to 3.
InitWith(csvs) == InitSession(csvs, {default_maturity_scores}, {None})

\* ---------------------------------------------------------------- actions
\* The user moves the year slider.
SetYearRange ==
  /\ pc = "idle"
  /\ \E v \in yr_values(df) :
       ScriptRun("none", "strategies.csv", uploaded, [Widgets EXCEPT !.yr = v],
                 maturity_scores,
                 current_scores, target_scores)

\* The user changes one of the multiselects.
SetOrgTypes ==
  /\ pc = "idle"
  /\ \E v \in SUBSET org_types(df) :
       ScriptRun("none", "strategies.csv", uploaded,
                 [Widgets EXCEPT !.org_type_sel = v], maturity_scores,
                 current_scores, target_scores)

SetCountries ==
  /\ pc = "idle"
  /\ \E v \in SUBSET countries(df) :
       ScriptRun("none", "strategies.csv", uploaded,
                 [Widgets EXCEPT !.country_sel = v], maturity_scores,
                 current_scores, target_scores)

SetScopes ==
  /\ pc = "idle"
  /\ \E v \in SUBSET scopes(df) :
       ScriptRun("none", "strategies.csv", uploaded,
                 [Widgets EXCEPT !.scope_sel = v], maturity_scores,
                 current_scores, target_scores)

\* The user types a search text.
SetQuery ==
  /\ pc = "idle"
  /\ \E v \in Queries :
       ScriptRun("none", "strategies.csv", uploaded, [Widgets EXCEPT !.q = v],
                 maturity_scores,
                 current_scores, target_scores)

\* The user picks a search mode.
SetSearchMode ==
  /\ pc = "idle"
  /\ \E v \in SearchModes :
       ScriptRun("none", "strategies.csv", uploaded,
                 [Widgets EXCEPT !.search_mode = v], maturity_scores,
                 current_scores, target_scores)

\* "Load selected file"
ClickLoadSelected ==
  /\ pc = "idle"
  /\ \E sel \in csv_files :
       ScriptRun("load", sel, uploaded, Widgets, maturity_scores,
                 current_scores, target_scores)

\* "Reload (clear cache)"
ClickReload ==
  /\ pc = "idle"
  /\ ScriptRun("reload", "strategies.csv", uploaded, Widgets, maturity_scores,
                 current_scores, target_scores)

\* "Hard refresh (cache and state)"
ClickHardRefresh ==
  /\ pc = "idle"
  /\ ScriptRun("hard", "strategies.csv", uploaded, Widgets, maturity_scores,
                 current_scores, target_scores)

\* The user drops a file on the uploader.
Upload ==
  /\ \E f \in Uploads :
       ScriptRun("none", "strategies.csv", Some(f), Widgets, maturity_scores,
                 current_scores, target_scores)

\* The user removes the file from the uploader.
RemoveUpload ==
  /\ uploaded # None
  /\ ScriptRun("none", "strategies.csv", None, Widgets, maturity_scores,
                 current_scores, target_scores)

\* The run st.rerun() asked for.
Rerun ==
  /\ pc = "rerun"
  /\ ScriptRun("none", "strategies.csv", uploaded, Widgets, maturity_scores,
                 current_scores, target_scores)

\* The user moves one maturity slider of tab_diagnose, lines 1002-1020.
MoveMaturitySlider ==
  /\ pc = "idle"
  /\ \E t \in Range(MATURITY_THEMES), v \in 1..5 :
       ScriptRun("none", "strategies.csv", uploaded, Widgets,
                 [maturity_scores EXCEPT ![t] = v], current_scores,
                 target_scores)

\* Slider positions with one beyond max_value.
LensValuesBeyond == {20, 50, 80, 120}

\* The positions the lens sliders are moved to, within min_value = 0 and
\* max_value = 100.
LensValues == {20, 50, 80, 100}

\* The lenses whose sliders are moved: one without a conflict rule, one with
\* a rule in both maturity bands at either end, one with a rule at low
\* maturity only.
MovedLenses ==
  {"Abstraction Level", "Governance Structure", "Delivery Mode", "Decision Model"}

\* The lens sliders that are not at their default.
Displaced(cur, tgt) ==
  Cardinality({d \in Range(DIMENSIONS) : cur[d] # default_lens_scores[d]})
  + Cardinality({d \in Range(DIMENSIONS) : tgt[d] # default_lens_scores[d]})

\* The user moves one "current" lens slider of tab_diagnose, lines 1125-1136.
MoveCurrentSlider ==
  /\ pc = "idle"
  /\ \E d \in MovedLenses, v \in LensValues :
       LET cur == [current_scores EXCEPT ![d] = v]
       IN  /\ Displaced(cur, target_scores) <= MaxDisplaced
           /\ ScriptRun("none", "strategies.csv", uploaded, Widgets,
                         maturity_scores, cur, target_scores)

\* The user moves one "target" lens slider of tab_diagnose, lines 1145-1156.
MoveTargetSlider ==
  /\ pc = "idle"
  /\ \E d \in MovedLenses, v \in LensValues :
       LET tgt == [target_scores EXCEPT ![d] = v]
       IN  /\ Displaced(current_scores, tgt) <= MaxDisplaced
           /\ ScriptRun("none", "strategies.csv", uploaded, Widgets,
                         maturity_scores, current_scores, tgt)

\* The values the user gives the widgets of "Business priorities".
OutcomeChoices == {{}, {"Reduce operating costs"}}
QuestionChoices == {<<>>, <<"A">>}
CapabilityChoices == {{}, {"Trusted operational data"}}

\* The user changes "Which outcomes are most important", lines 959-964.
SetOutcomes ==
  /\ pc = "idle"
  /\ \E v \in OutcomeChoices :
       ScriptRun("none", "strategies.csv", uploaded,
                 [Widgets EXCEPT !.biz["outcomes"].value = v], maturity_scores,
                 current_scores, target_scores)

\* The user edits "What business questions", lines 966-971.
SetQuestions ==
  /\ pc = "idle"
  /\ \E v \in QuestionChoices :
       ScriptRun("none", "strategies.csv", uploaded,
                 [Widgets EXCEPT !.biz["questions"].value = v], maturity_scores,
                 current_scores, target_scores)

\* The user changes "Which capabilities", lines 973-978.
SetCapabilities ==
  /\ pc = "idle"
  /\ \E v \in CapabilityChoices :
       ScriptRun("none", "strategies.csv", uploaded,
                 [Widgets EXCEPT !.biz["capabilities"].value = v], maturity_scores,
                 current_scores, target_scores)

Next ==
  \/ SetYearRange
  \/ SetOrgTypes
  \/ SetCountries
  \/ SetScopes
  \/ SetQuery
  \/ SetSearchMode
  \/ ClickLoadSelected
  \/ ClickReload
  \/ ClickHardRefresh
  \/ Upload
  \/ RemoveUpload
  \/ Rerun

Init == InitWith(DefaultCsvs(MaxSessionRows))

Spec == Init /\ [][Next]_vars


\* The filters and the search on their own: the sidebar widgets over every
\* strategies.csv of up to MaxRows rows, no upload, load or refresh.
InitExplore == InitWith(DefaultCsvs(MaxRows))

NextExplore ==
  \/ SetYearRange
  \/ SetOrgTypes
  \/ SetCountries
  \/ SetScopes
  \/ SetQuery
  \/ SetSearchMode

SpecExplore == InitExplore /\ [][NextExplore]_vars

\* The maturity model on its own: the six sliders over every combination of
\* levels, the Explore tab at rest on an empty strategies.csv.
InitMaturity ==
  /\ InitWith({Csv(Range(REQUIRED), <<>>)})
  /\ HAS_EMBED = FALSE

NextMaturity == MoveMaturitySlider

SpecMaturity == InitMaturity /\ [][NextMaturity]_vars

\* The uploader on its own, with the scheduling of the script: the data
\* loader, the search box and the search mode over an empty strategies.csv;
\* Streamlit performs the run st.rerun() asked for, the user is free to act
\* or not.
NextUpload ==
  \/ Upload
  \/ RemoveUpload
  \/ Rerun
  \/ ClickLoadSelected
  \/ ClickReload
  \/ SetQuery
  \/ SetSearchMode

SpecUpload == InitMaturity /\ [][NextUpload]_vars /\ WF_vars(Rerun)

\* The lens model on its own: the twenty lens sliders, the reload and the
\* hard refresh, in a session whose six maturity themes were all set to one
\* level, the Explore tab at rest on an empty strategies.csv.
LensProfiles == {[t \in Range(MATURITY_THEMES) |-> v] : v \in 1..5}

InitLens ==
  /\ InitSession({Csv(Range(REQUIRED), <<>>)}, LensProfiles, {None})
  /\ HAS_EMBED = FALSE

NextLens ==
  \/ MoveCurrentSlider
  \/ MoveTargetSlider
  \/ ClickReload
  \/ ClickHardRefresh
  \/ Rerun

SpecLens == InitLens /\ [][NextLens]_vars

\* The session state on its own: the business priorities, the target
\* sliders and the hard refresh, from the sessions of the lens model.
NextSession ==
  \/ SetOutcomes
  \/ SetQuestions
  \/ SetCapabilities
  \/ MoveTargetSlider
  \/ ClickHardRefresh
  \/ Rerun

SpecSession == InitLens /\ [][NextSession]_vars

\* The functions of the script called on their own, on arguments beyond
\* those a session passes.  call holds the function, its arguments and,
\* once it has returned, Some(its result).
Averages == {<<num, 6>> : num \in (0 - 12)..48} \cup {<<0, 1>>}

ConflictCalls ==
  {[fn |-> "conflict_for_target", args |-> <<d, t, a[1], a[2]>>, ret |-> None] :
     d \in Range(DIMENSIONS), t \in 0..100,
     a \in {<<num, 6>> : num \in 6..30} \cup {<<0, 1>>}}

LabelCalls ==
  {[fn |-> "maturity_label", args |-> a, ret |-> None] : a \in Averages}

\* CSV contents with required columns missing and with an extra column.
LoadCsvs ==
  {Csv((Range(REQUIRED) \ m) \cup x, ls) :
     m \in SUBSET {"id", "organisation", "year", "date_added"},
     x \in {{}, {"archetypes"}},
     ls \in SeqsUpTo(Pool, 1)}
  \cup {OtherCsv, BrokenCsv, UploadCsv}

LoadCalls ==
  {[fn |-> f, args |-> csv, ret |-> None] :
     f \in {"load_data_from_path", "load_data_from_bytes"}, csv \in LoadCsvs}

InitCalls ==
  /\ InitSession({Csv(Range(REQUIRED), <<>>)}, {default_maturity_scores},
                 ConflictCalls \cup LabelCalls \cup LoadCalls)
  /\ HAS_EMBED = FALSE

CallConflictForTarget ==
  /\ call # None
  /\ call.fn = "conflict_for_target"
  /\ call.ret = None
  /\ call' = [call EXCEPT !.ret =
                Some(conflict_for_target(call.args[1], call.args[2],
                                         call.args[3], call.args[4]))]
  /\ UNCHANGED <<HAS_EMBED, default_csv, uploaded_bytes, uploaded, df, emb_df,
                 yr, org_type_sel, country_sel, scope_sel, q, search_mode,
                 filtered, fdf, maturity_scores, current_level_name, messages,
                 current_scores, target_scores, biz_priority, biz_widgets,
                 shift_view, actions_view, actions_df, pc>>

CallMaturityLabel ==
  /\ call # None
  /\ call.fn = "maturity_label"
  /\ call.ret = None
  /\ call' = [call EXCEPT !.ret = Some(maturity_label(call.args[1], call.args[2]))]
  /\ UNCHANGED <<HAS_EMBED, default_csv, uploaded_bytes, uploaded, df, emb_df,
                 yr, org_type_sel, country_sel, scope_sel, q, search_mode,
                 filtered, fdf, maturity_scores, current_level_name, messages,
                 current_scores, target_scores, biz_priority, biz_widgets,
                 shift_view, actions_view, actions_df, pc>>

CallLoadDataFromPath ==
  /\ call # None
  /\ call.fn = "load_data_from_path"
  /\ call.ret = None
  /\ call' = [call EXCEPT !.ret = Some(load_data_from_path(call.args))]
  /\ UNCHANGED <<HAS_EMBED, default_csv, uploaded_bytes, uploaded, df, emb_df,
                 yr, org_type_sel, country_sel, scope_sel, q, search_mode,
                 filtered, fdf, maturity_scores, current_level_name, messages,
                 current_scores, target_scores, biz_priority, biz_widgets,
                 shift_view, actions_view, actions_df, pc>>

CallLoadDataFromBytes ==
  /\ call # None
  /\ call.fn = "load_data_from_bytes"
  /\ call.ret = None
  /\ call' = [call EXCEPT !.ret = Some(load_data_from_bytes(call.args))]
  /\ UNCHANGED <<HAS_EMBED, default_csv, uploaded_bytes, uploaded, df, emb_df,
                 yr, org_type_sel, country_sel, scope_sel, q, search_mode,
                 filtered, fdf, maturity_scores, current_level_name, messages,
                 current_scores, target_scores, biz_priority, biz_widgets,
                 shift_view, actions_view, actions_df, pc>>

NextCalls ==
  \/ CallConflictForTarget
  \/ CallMaturityLabel
  \/ CallLoadDataFromPath
  \/ CallLoadDataFromBytes

SpecCalls == InitCalls /\ [][NextCalls]_vars

\* ----------------------------------------------------------------- helpers
\* s is a sub-sequence of t: rows of t, each at most once, in t's order.
IsSubSeq(s, t) ==
  \E f \in [1..Len(s) -> 1..Len(t)] :
     /\ \A i \in 1..Len(s) : s[i] = t[f[i]]
     /\ \A i, j \in 1..Len(s) : i < j => f[i] < f[j]

Clamp15(i) == IF i < 1 THEN 1 ELSE IF i > 5 THEN 5 ELSE i

\* The run displayed used the keyword search (or no search at all).
KeywordPath == search_mode = "Keyword" \/ emb_df = None

\* --------------------------------------------------------------- claim C1
\* C1: the maturity label is the table entry for floor(average + 0.5)
\* clamped to 1..5 (round half up), for every six levels in 1..5.
C1_RoundHalfUp ==
  current_level_name =
    MATURITY_SCALE[Clamp15(FloorDiv(2 * SumSeq(maturity_scores, MATURITY_THEMES) + 6, 12))]

\* --------------------------------------------------------------- claim C2
\* The set-membership predicate of the three multiselects, as specified.
PassesSelections(r) ==
  /\ (org_type_sel = {} \/ r.org_type \in org_type_sel)
  /\ (country_sel = {} \/ r.country \in country_sel)
  /\ (scope_sel = {} \/ r.scope \in scope_sel)

\* C2: a record whose year is absent passes the year-range filter whatever
\* the range: when the three selections keep it, it is in the filtered view.
C2_AbsentYearPasses ==
  \A i \in 1..Len(df) :
     (df[i].year = NaN /\ PassesSelections(df[i]))
        => \E k \in 1..Len(filtered) : filtered[k] = df[i]

\* --------------------------------------------------------------- claim C3
\* C3: with the three selections empty, the year range spanning the data and
\* an empty query, the displayed view is the loaded frame, same rows, same
\* order.
C3_IdentityLaw ==
  (/\ org_type_sel = {}
   /\ country_sel = {}
   /\ scope_sel = {}
   /\ yr = yr_default(df)
   /\ q = <<>>)
     => (fdf.ok /\ fdf.rows = df)

\* --------------------------------------------------------------- claim C4
\* The year predicate the pipeline applies.
PassesYear(r) == yr = None \/ (r.year # NaN /\ yr[1] <= r.year /\ r.year <= yr[2])

InView(r) == \E k \in 1..Len(filtered) : filtered[k] = r

\* C4: for each of organisation type, country and scope, a record (that the
\* other predicates keep) is kept if and only if the selected set is empty
\* or holds the record's value.
C4_SetMembership ==
  \A i \in 1..Len(df) :
     LET r == df[i]
         by_org == org_type_sel = {} \/ r.org_type \in org_type_sel
         by_country == country_sel = {} \/ r.country \in country_sel
         by_scope == scope_sel = {} \/ r.scope \in scope_sel
     IN  /\ (PassesYear(r) /\ by_country /\ by_scope) => (InView(r) <=> by_org)
         /\ (PassesYear(r) /\ by_org /\ by_scope) => (InView(r) <=> by_country)
         /\ (PassesYear(r) /\ by_org /\ by_country) => (InView(r) <=> by_scope)

\* A selection removed one record and kept another, and an empty selection
\* kept a record whose field is blank.
C4_Witness ==
  /\ org_type_sel # {}
  /\ country_sel = {}
  /\ \E i, j \in 1..Len(df) :
        /\ df[i].org_type \notin org_type_sel /\ PassesYear(df[i]) /\ ~InView(df[i])
        /\ df[j].org_type \in org_type_sel /\ df[j].country = <<>> /\ InView(df[j])

\* --------------------------------------------------------------- claim C5
\* The four filters applied in the order p.
ApplyInOrder(p, rows) ==
  LET step(k, x) == filter_step(p[k], x, yr, org_type_sel, country_sel, scope_sel)
  IN  step(4, step(3, step(2, step(1, rows))))

\* C5: the filtered view is the rows of the frame that pass all four
\* predicates, in the frame's order; every order of the four filters gives
\* that view; and every filter returns a sub-sequence of its input.
C5_Conjunction ==
  /\ filtered = SelectSeq(df, LAMBDA r : PassesYear(r) /\ PassesSelections(r))
  /\ \A p \in Perms(4) : ApplyInOrder(p, df) = filtered
  /\ \A k \in 1..4 :
        /\ IsSubSeq(filter_step(k, df, yr, org_type_sel, country_sel, scope_sel), df)
        /\ IsSubSeq(filtered,
                    filter_step(k, df, yr, org_type_sel, country_sel, scope_sel))

\* Two different filters each removed a record the other kept.
C5_Witness ==
  /\ yr # None
  /\ org_type_sel # {}
  /\ \E i, j \in 1..Len(df) :
        /\ ~PassesYear(df[i]) /\ df[i].org_type \in org_type_sel
        /\ PassesYear(df[j]) /\ df[j].org_type \notin org_type_sel
  /\ Len(filtered) < Len(df)

\* --------------------------------------------------------------- claim C6
\* text contains query as literal text, letter case ignored.
ContainsLiteral(text, query) ==
  \E i \in 1..(Len(text) - Len(query) + 1) :
     \A j \in 1..Len(query) : Lower(query[j]) = Lower(text[i + j - 1])

\* C6: a keyword search with a non-empty query keeps a record if and only if
\* the query is contained, as literal text and whatever the letter case, in
\* the record's title, organisation and summary joined together.
C6_LiteralThreeFields ==
  (q # <<>> /\ KeywordPath)
     => \A i \in 1..Len(filtered) :
           (fdf.ok /\ \E k \in 1..Len(fdf.rows) : fdf.rows[k] = filtered[i])
              <=> ContainsLiteral(JoinSp(JoinSp(filtered[i].title,
                                                filtered[i].organisation),
                                         filtered[i].summary), q)

\* --------------------------------------------------------------- claim C7
\* C7: whatever the query, the result of the keyword search is a
\* sub-sequence of its input: input rows only, each at most once, in their
\* original order.
C7_SubSequence ==
  (KeywordPath /\ fdf.ok) => (IsSubSeq(fdf.rows, filtered) /\ ~fdf.has_similarity)

\* A keyword search kept two records and dropped one.
C7_Witness ==
  /\ q # <<>>
  /\ KeywordPath
  /\ fdf.ok
  /\ Len(fdf.rows) >= 2
  /\ Len(fdf.rows) < Len(filtered)

\* --------------------------------------------------------------- claim C8
\* C8: with an empty query the search step returns its input unchanged in
\* both modes, the same rows in the same order and no similarity column; so
\* do simple_search and semantic_search themselves.
C8_EmptyQueryIdentity ==
  /\ q = <<>> => fdf = Frame(filtered)
  /\ \A mode \in SearchModes :
        search_step(filtered, emb_df, <<>>, mode, HAS_EMBED) = {Frame(filtered)}
  /\ simple_search(filtered, <<>>) = Frame(filtered)
  /\ semantic_search(filtered, emb_df, <<>>, TOP_K, HAS_EMBED) = {Frame(filtered)}

\* The query is empty in semantic mode, with embeddings and rows to rank.
C8_Witness ==
  /\ q = <<>>
  /\ search_mode = "AI semantic"
  /\ emb_df # None
  /\ yr # yr_default(df)
  /\ filtered # <<>>
  /\ Len(filtered) < Len(df)

\* --------------------------------------------------------------- claim C9
\* C9: in semantic mode with a non-empty query and no embeddings, the search
\* does not fail and returns what the keyword search returns for the same
\* input and query.
C9_FallbackNeverFails ==
  (q # <<>> /\ search_mode = "AI semantic" /\ emb_df = None)
     => (fdf.ok /\ fdf = simple_search(filtered, q))

\* -------------------------------------------------------------- claim C10
\* The similarity of a record to the query: that of its own text.
OwnSimilarity(r, query) == dot(encode(embed_text(r)), encode(query))

\* C10: a semantic search with a non-empty query on a non-empty filtered
\* view returns min(top_k, size of the view) records of the view, in order of
\* non-increasing similarity, each with its own similarity, and omits no
\* record more similar than one it returns.
C10_SemanticTopK ==
  (q # <<>> /\ search_mode = "AI semantic" /\ emb_df # None /\ filtered # <<>>)
     => /\ fdf.ok
        /\ fdf.has_similarity
        /\ Len(fdf.rows) = Min(TOP_K, Len(filtered))
        /\ Len(fdf.similarity) = Len(fdf.rows)
        /\ IsSubSeq(SelectSeq(filtered,
                              LAMBDA r : \E k \in 1..Len(fdf.rows) : fdf.rows[k] = r),
                    filtered)
        /\ \A k \in 1..Len(fdf.rows) :
              /\ \E i \in 1..Len(filtered) : filtered[i] = fdf.rows[k]
              /\ fdf.similarity[k] = OwnSimilarity(fdf.rows[k], q)
        /\ \A j, k \in 1..Len(fdf.rows) :
              j < k => (fdf.rows[j] # fdf.rows[k]
                        /\ fdf.similarity[j] >= fdf.similarity[k])
        /\ \A i \in 1..Len(filtered) :
              (\A k \in 1..Len(fdf.rows) : fdf.rows[k] # filtered[i])
                 => \A k \in 1..Len(fdf.rows) :
                       OwnSimilarity(filtered[i], q) <= fdf.similarity[k]

\* The same, for the runs whose embeddings are those of the frame they rank.
C10_WhenEmbeddingsCurrent ==
  emb_df = compute_strategy_embeddings(df, HAS_EMBED) => C10_SemanticTopK

\* -------------------------------------------------------------- claim C11
\* The position of a lens in AXES.
AxisIndex(d) == CHOOSE i \in 1..Len(AXES) : AXES[i][1] = d

\* C11: for every lens the gap table displayed has a row whose signed delta
\* is target - current, whose magnitude is |delta| and whose direction is
\* toward the right label when delta > 0, toward the left label when
\* delta < 0 and "no change" when delta = 0.
C11_GapRow ==
  pc = "idle" =>
    \A table \in {gap_df} :
       \A i \in 1..Len(AXES) :
          \E k \in 1..Len(table) :
             LET row == table[k]
                 delta == target_scores[AXES[i][1]] - current_scores[AXES[i][1]]
             IN  /\ row.Lens = AXES[i][1]
                 /\ row.Change_needed = delta
                 /\ row.Magnitude = (IF delta >= 0 THEN delta ELSE 0 - delta)
                 /\ delta > 0 => row.Direction = <<"toward", AXES[i][3]>>
                 /\ delta < 0 => row.Direction = <<"toward", AXES[i][2]>>
                 /\ delta = 0 => row.Direction = <<"no change">>

\* Delivery Mode moved from 20 to 80: +60, magnitude 60, toward Big Bang.
C11_Witness ==
  /\ pc = "idle"
  /\ current_scores["Delivery Mode"] = 20
  /\ target_scores["Delivery Mode"] = 80
  /\ \E table \in {gap_df} :
        \E k \in 1..Len(table) :
           /\ table[k].Lens = "Delivery Mode"
           /\ table[k].Change_needed = 60
           /\ table[k].Magnitude = 60
           /\ table[k].Direction = <<"toward", "Big Bang">>

\* -------------------------------------------------------------- claim C12
\* C12: the gap table displayed holds each of the ten lenses exactly once,
\* the conflict-flagged rows before the others, then by descending
\* magnitude, rows equal on both keys in the order of AXES.
C12_GapOrder ==
  pc = "idle" =>
    \A table \in {gap_df} :
       /\ Len(table) = 10
       /\ \A i \in 1..Len(AXES) :
             Cardinality({k \in 1..Len(table) : table[k].Lens = AXES[i][1]}) = 1
       /\ \A k \in 1..(Len(table) - 1) :
             LET a == table[k]
                 b == table[k + 1]
             IN  \/ a.Conflict /\ ~b.Conflict
                 \/ a.Conflict = b.Conflict /\ a.Magnitude > b.Magnitude
                 \/ /\ a.Conflict = b.Conflict
                    /\ a.Magnitude = b.Magnitude
                    /\ AxisIndex(a.Lens) < AxisIndex(b.Lens)

\* A flagged row stands before an unflagged row of larger magnitude, and two
\* rows equal on both keys follow each other.
C12_Witness ==
  /\ pc = "idle"
  /\ \E table \in {gap_df} :
        /\ \E k \in 1..(Len(table) - 1) :
              /\ table[k].Conflict
              /\ ~table[k + 1].Conflict
              /\ table[k].Magnitude < table[k + 1].Magnitude
        /\ \E k \in 1..(Len(table) - 1) :
              /\ table[k].Conflict = table[k + 1].Conflict
              /\ table[k].Magnitude = table[k + 1].Magnitude

\* -------------------------------------------------------------- claim C13
\* The call conflict_for_target(lens, target, average) has returned.
ConflictReturned ==
  call # None /\ call.fn = "conflict_for_target" /\ call.ret # None

\* The level 1..5 of a maturity label.
LevelIndex(label) == CHOOSE i \in 1..5 : MATURITY_SCALE[i] = label

\* C13: for every lens and maturity average, conflict_for_target gives one
\* conflict/no-conflict answer for all targets in 70..100 and one answer for
\* all targets in 0..30.
C13_ExtremeThresholds ==
  ConflictReturned =>
    LET lens == call.args[1]
        target == call.args[2]
        answer == call.ret[1] # None
        AnswerAt(u) ==
          conflict_for_target(lens, u, call.args[3], call.args[4]) # None
    IN  /\ target \in 70..100 => \A u \in 70..100 : AnswerAt(u) = answer
        /\ target \in 0..30 => \A u \in 0..30 : AnswerAt(u) = answer

\* -------------------------------------------------------------- claim C14
\* The (lens, band) pairs with a rule in conflict_for_target.
RuledPairs ==
  {<<"Delivery Mode", "low">>, <<"Governance Structure", "low">>,
   <<"Access Philosophy", "low">>, <<"Decision Model", "low">>,
   <<"Motivation", "low">>, <<"Delivery Mode", "high">>,
   <<"Governance Structure", "high">>, <<"Access Philosophy", "high">>}

\* The band of a maturity label: levels 1-2, level 3, levels 4-5.
BandOf(label) ==
  IF LevelIndex(label) <= 2 THEN "low"
  ELSE IF LevelIndex(label) = 3 THEN "mid" ELSE "high"

\* The band of the average the call was made with.
CallBand == BandOf(maturity_label(call.args[3], call.args[4]))

\* C14: conflict_for_target returns no conflict for a target in 31..69, for
\* a (lens, maturity band) pair without a rule, and for the lenses
\* Abstraction Level, Adaptability, Ambition, Coverage and Orientation.
C14_NoConflictOutsideRules ==
  ConflictReturned =>
    /\ call.args[2] \in 31..69 => call.ret[1] = None
    /\ <<call.args[1], CallBand>> \notin RuledPairs => call.ret[1] = None
    /\ call.args[1] \in {"Abstraction Level", "Adaptability", "Ambition",
                          "Coverage", "Orientation"} => call.ret[1] = None

\* A call with a mid-range target on a lens and band that have a rule.
C14_Witness ==
  /\ ConflictReturned
  /\ call.args[1] = "Delivery Mode"
  /\ call.args[2] = 69
  /\ CallBand = "low"
  /\ call.ret[1] = None

\* -------------------------------------------------------------- claim C15
\* The warnings of the rules for low maturity and for higher maturity.
LowBandWarnings ==
  {"Big bang delivery at Beginning or Emerging maturity is high risk. Consider phased delivery.",
   "Highly federated models at low maturity can fragment standards. Strengthen central controls first.",
   "Wide democratisation needs strong basics. Start with controlled, role based access.",
   "Highly data driven decisions need robust data quality, monitoring and skills.",
   "Innovation first without guardrails can raise risk. Keep compliance in the loop."}

HighBandWarnings ==
  {"At Developing or Mastering, being too incremental may under deliver benefits.",
   "Highly centralised models may slow teams at higher maturity. Consider selective federation.",
   "Excessive control may limit value realisation. Revisit openness where safe."}

\* C15: a low-maturity warning is returned only when the maturity label is
\* Beginning or Emerging (levels 1-2), a higher-maturity warning only when it
\* is Developing or Mastering (levels 4-5), and at Learning (level 3) no
\* conflict is returned for any lens and target.
C15_Bands ==
  ConflictReturned =>
    LET label == maturity_label(call.args[3], call.args[4])
    IN  /\ call.ret[1] # None => call.ret[1][1] \in LowBandWarnings \cup HighBandWarnings
        /\ (call.ret[1] # None /\ call.ret[1][1] \in LowBandWarnings)
              => LevelIndex(label) \in {1, 2}
        /\ (call.ret[1] # None /\ call.ret[1][1] \in HighBandWarnings)
              => LevelIndex(label) \in {4, 5}
        /\ LevelIndex(label) = 3 => call.ret[1] = None

\* A call at Learning with an extreme target on a lens that has rules in
\* both bands.
C15_Witness ==
  /\ ConflictReturned
  /\ call.args[1] = "Governance Structure"
  /\ call.args[2] = 100
  /\ maturity_label(call.args[3], call.args[4]) = "Learning"
  /\ call.ret[1] = None

\* -------------------------------------------------------------- claim C16
\* The call maturity_label(average) has returned.
LabelReturned ==
  call # None /\ call.fn = "maturity_label" /\ call.ret # None

\* C16: maturity_label returns one of the five labels for every average,
\* those outside 1..5 and the 0 of an empty score set included, and for
\* averages a <= b the level of label(a) is not above the level of label(b).
C16_TotalMonotone ==
  LabelReturned =>
    /\ call.ret[1] \in {"Beginning", "Emerging", "Learning", "Developing", "Mastering"}
    /\ \A b \in Averages :
          call.args[1] * b[2] <= b[1] * call.args[2]
            => LevelIndex(call.ret[1]) <= LevelIndex(maturity_label(b[1], b[2]))

\* The label of the average 0 that tab_shift passes without scores.
C16_Witness ==
  /\ LabelReturned
  /\ call.args = <<0, 1>>
  /\ call.ret[1] = "Beginning"

\* -------------------------------------------------------------- claim C17
\* A call of one of the two loaders has returned or raised.
LoadReturned ==
  /\ call # None
  /\ call.fn \in {"load_data_from_path", "load_data_from_bytes"}
  /\ call.ret # None

\* C17: a load of content that lacks required columns fails with an error
\* that names exactly the required columns that are absent, and a load of
\* content with all eleven required columns passes the column check,
\* whatever other columns the content has.
C17_SchemaError ==
  LoadReturned =>
    LET absent == {c \in Range(REQUIRED) : c \notin call.args.columns}
    IN  /\ absent # {} =>
              /\ ~call.ret[1].ok
              /\ Range(call.ret[1].missing) = absent
        /\ absent = {} => call.ret[1].ok

\* The file without its organisation column raised, naming organisation.
C17_Witness ==
  /\ LoadReturned
  /\ call.args = BrokenCsv
  /\ ~call.ret[1].ok
  /\ call.ret[1].missing = <<"organisation">>

\* -------------------------------------------------------------- claim C18
TextColumns == {"title", "organisation", "summary", "scope", "org_type", "country"}

\* C18: after a successful load every row's year is the number of its cell,
\* or absent when the cell is blank or not a number (never zero, never
\* text), and every blank cell of a text column is the empty string.
C18_Normalised ==
  (LoadReturned /\ call.ret[1].ok) =>
    /\ Len(call.ret[1].rows) = Len(call.args.lines)
    /\ \A i \in 1..Len(call.args.lines) :
          LET line == call.args.lines[i]
              row == call.ret[1].rows[i]
          IN  /\ row.year \in Int
              /\ line.year.kind = "num" => row.year = line.year.val
              /\ line.year.kind # "num" => row.year = NaN
              /\ \A c \in TextColumns : line[c] = <<>> => row[c] = <<>>

\* A loaded file with a blank year and a blank organisation in its second
\* line.
C18_Witness ==
  /\ LoadReturned
  /\ call.args = OtherCsv
  /\ call.ret[1].ok
  /\ call.args.lines[2].year = YBlank
  /\ call.ret[1].rows[2].year = NaN
  /\ call.ret[1].rows[2].organisation = <<>>

LoadFailed ==
  \E m \in messages : m.kind = "error" /\ m.text = "Error loading file"

\* The last run was one of "Load selected file" and the load succeeded.
LoadSucceeded ==
  \E m \in messages : m.kind = "success" /\ m.text = "Loaded"

\* C20: a reload replaces the record set as a whole: a completed run of
\* "Load selected file" that succeeds uses one complete loaded file, and one
\* that fails keeps using the set that was in use before it.
C20_AtomicReplace ==
  [][pc' = "idle" =>
       /\ LoadSucceeded' =>
             \E sel \in csv_files :
                /\ load_data_from_path(read_file(sel)).ok
                /\ df' = load_data_from_path(read_file(sel)).rows
       /\ LoadFailed' => df' = df]_vars

\* -------------------------------------------------------------- claim C24
\* Some lens has a gap between the current and the target profile.
SomeGap == \E d \in Range(DIMENSIONS) : current_scores[d] # target_scores[d]

\* C24: after a completed run, when the current and the target profile are
\* identical on all ten lenses the Shift step reports that there are no
\* shifts and stores no action rows, and priority shifts and action rows
\* are produced only when some lens has a non-zero gap.
C24_NoShiftsWhenIdentical ==
  (pc = "idle" /\ shift_view # NotReached) =>
     /\ ~SomeGap => /\ shift_view.shown = "no shifts"
                    /\ shift_view.actions_rows = None
     /\ (shift_view.shown = "priority shifts" \/ shift_view.actions_rows # None)
          => SomeGap

\* -------------------------------------------------------------- claim C25
\* C25: whenever a completed run ranked by semantic search, the embeddings it
\* used are those of the frame it filtered and displayed: every row of the
\* filtered view has its embedding, that of its own text.
C25_EmbeddingsOfCurrentRecords ==
  (pc = "idle" /\ q # <<>> /\ search_mode = "AI semantic" /\ emb_df # None)
     => /\ emb_df = compute_strategy_embeddings(df, HAS_EMBED)
        /\ \A k \in 1..Len(filtered) :
              /\ filtered[k].idx \in DOMAIN emb_df[1]
              /\ emb_df[1][filtered[k].idx] = encode(embed_text(filtered[k]))

\* -------------------------------------------------------------- claim C26
\* The last run rejected the file held by the uploader.
UploadFailed ==
  \E m \in messages : m.kind = "error" /\ m.text = "Upload error"

\* C26: a run whose load attempt fails, a rejected upload or a failed "Load
\* selected file", leaves the uploaded-data override of the session state as
\* it was before the run.
C26_FailedLoadKeepsSource ==
  [][(pc' = "idle" /\ (LoadFailed' \/ UploadFailed'))
       => uploaded_bytes' = uploaded_bytes]_vars

\* -------------------------------------------------------------- claim C27
\* C27: once "Load selected file" has succeeded, a run for a later widget
\* interaction, one that neither loads nor uploads nor refreshes, still has
\* the loaded file's records as its record set.
C27_LoadedFilePersists ==
  [][(/\ pc = "idle"
      /\ LoadSucceeded
      /\ pc' = "idle"
      /\ messages' = {}
      /\ uploaded' = uploaded) => df' = df]_vars

\* -------------------------------------------------------------- claim C29
\* C29: with every option offered selected in the three multiselects, the
\* default, the filtered view is the view of the same run with nothing
\* selected: no record is removed, whatever its fields.
C29_DefaultSelectsAll ==
  (/\ pc = "idle"
   /\ org_type_sel = org_types(df)
   /\ country_sel = countries(df)
   /\ scope_sel = scopes(df))
     => filtered = filter_pipeline(df, yr, {}, {}, {})

\* -------------------------------------------------------------- claim C28
\* The last run accepted the file held by the uploader and asked for a rerun.
UploadAccepted ==
  /\ pc = "rerun"
  /\ \E m \in messages : m.kind = "success" /\ m.text = "Loaded uploaded CSV"

\* A run has completed and displays the uploaded record set.
ShowsUpload ==
  /\ pc = "idle"
  /\ uploaded_bytes # None
  /\ df = load_data_from_bytes(uploaded_bytes[1]).rows

\* C28: after an accepted upload the reruns come to an end: a run completes
\* and displays the uploaded record set.
C28_UploadSettles == UploadAccepted ~> ShowsUpload

\* -------------------------------------------------------------- claim C30
\* The state "Hard refresh" leaves: the keys of the session state deleted
\* and a rerun pending.
SessionCleared == pc = "rerun" /\ biz_priority = None /\ actions_df = None

====
